---- MODULE Spec2Model ----
(***************************************************************************)
(* A model of examples/HawkinDB_RAG.py: the TextToHawkinsDB class, which   *)
(* turns free text into a JSON record with a completion call, hands the    *)
(* record to the HawkinsDB store, and answers questions from a context     *)
(* built out of the first five listed entities.                            *)
(*                                                                         *)
(* Every public method is one action.  A method is an operator that takes  *)
(* its arguments and the outcomes of the external calls it may make (the   *)
(* completion call and the store calls) and yields what the caller sees    *)
(* (an envelope, or an escaped exception) together with the sequence of    *)
(* external calls it issued, in order.                                     *)
(***************************************************************************)
EXTENDS Integers, Sequences, FiniteSets, TLC

VARIABLES constructed, db, last, nExtracted, nWrites

vars == <<constructed, db, last, nExtracted, nWrites>>

(***************************************************************************)
(* Bounds and inputs.                                                      *)
(***************************************************************************)
\* add_entity calls issued over a run; also bounds the listing's length.
MaxWrites == 6

\* entities[:5] in query_by_text.
CutOff == 5

(***************************************************************************)
(* Strings that pass through json.loads or json.dumps (keys, names, frame  *)
(* texts) are held as the sequence of their pieces: a piece is either one  *)
(* character that JSON text writes escaped (a key of EscapeOf), or a run   *)
(* of characters written as they are (printable ASCII but the quote and    *)
(* the backslash).  Text gives the Python str.                             *)
(***************************************************************************)
EscapeOf ==
    [c \in {"\"", "\\", "\n", "\r", "\t", "\f", "é"} |->
        CASE c = "\"" -> "\\\""
          [] c = "\\" -> "\\\\"
          [] c = "\n" -> "\\n"
          [] c = "\r" -> "\\r"
          [] c = "\t" -> "\\t"
          [] c = "\f" -> "\\f"
          [] c = "é" -> "\\u00e9"]

RECURSIVE TextFrom(_, _)
TextFrom(pieces, i) ==
    IF i > Len(pieces) THEN "" ELSE pieces[i] \o TextFrom(pieces, i + 1)

Text(pieces) == TextFrom(pieces, 1)

RECURSIVE EscapedFrom(_, _)
EscapedFrom(pieces, i) ==
    IF i > Len(pieces) THEN ""
    ELSE (IF pieces[i] \in DOMAIN EscapeOf THEN EscapeOf[pieces[i]] ELSE pieces[i])
         \o EscapedFrom(pieces, i + 1)

\* A string as JSON text writes it: py_encode_basestring_ascii.
Quote(pieces) == "\"" \o EscapedFrom(pieces, 1) \o "\""

EntityName(i) == <<"E" \o ToString(i)>>

Names == {EntityName(i) : i \in 1..MaxWrites}

\* A name no extraction ever emits, so never stored.
AbsentName == <<"Unknown_Entity">>

Texts == {"Python is a programming language.", "The Tesla Model 3 is red."}

Questions == {"What is Python?", "Which car is red?"}

Answers == {"Python is a programming language."}

CompletionErrors == {"Connection error."}

\* The api_key argument of the constructor ("" for None or an empty key).
ApiKeys == {"", "sk-test"}

\* os.environ["OPENAI_API_KEY"] as the module sets it on import.
EnvApiKey == ""

(***************************************************************************)
(* Python values: None and the two ways a call ends.                       *)
(***************************************************************************)
None == [isNone |-> TRUE]

Some(v) == [isNone |-> FALSE, value |-> v]

Return(v) == [raised |-> FALSE, value |-> v]

Raise(msg) == [raised |-> TRUE, error |-> msg]

\* One external call as the method issued it: what was called, with what,
\* and how it ended (ret is the returned value, or the exception's text).
Call(fn, arg, outcome) ==
    [fn |-> fn, arg |-> arg, raised |-> outcome.raised,
     ret |-> IF outcome.raised THEN outcome.error ELSE outcome.value]

Min(a, b) == IF a <= b THEN a ELSE b

(***************************************************************************)
(* JSON values, as json.loads builds them: a dict, a list, a str, an int,  *)
(* True, False or None, each under its type.                               *)
(***************************************************************************)
JObject(members) == [type |-> "object", val |-> members]

JArray(items) == [type |-> "array", val |-> items]

JString(pieces) == [type |-> "string", val |-> pieces]

JNumber(n) == [type |-> "number", val |-> n]

JLiteral(word) == [type |-> word, val |-> word]

(***************************************************************************)
(* json.loads on the completion's content.  The content is held as the     *)
(* sequence of its lexemes, and stands for the text with one space between *)
(* lexemes: a structural character, a string literal, an integer, one of   *)
(* true, false, null, or a word that starts no JSON value.  The parser     *)
(* follows json.decoder: the value, then nothing more; each failure raises *)
(* JSONDecodeError with the decoder's message and the character offset.    *)
(***************************************************************************)
P(c) == [t |-> "punct", v |-> c]

S(text) == [t |-> "string", v |-> <<text>>]

N(n) == [t |-> "number", v |-> n]

L(word) == [t |-> "literal", v |-> word]

W(word) == [t |-> "bare", v |-> word]

IsPunct(tok, c) == tok.t = "punct" /\ tok.v = c

\* The characters a lexeme takes in the text.
Width(tok) ==
    CASE tok.t = "string" -> Len(Quote(tok.v))
      [] tok.t = "number" -> Len(ToString(tok.v))
      [] OTHER -> Len(tok.v)

\* The offset of lexeme i in the text; for i past the last lexeme, the
\* text's length.
RECURSIVE Offset(_, _)
Offset(toks, i) ==
    IF i <= 1 THEN 0
    ELSE IF i = Len(toks) + 1 THEN Offset(toks, i - 1) + Width(toks[i - 1])
    ELSE Offset(toks, i - 1) + Width(toks[i - 1]) + 1

\* JSONDecodeError's str: msg, line, column and char of the offset.
JSONDecodeError(msg, toks, i) ==
    msg \o ": line 1 column " \o ToString(Offset(toks, i) + 1)
        \o " (char " \o ToString(Offset(toks, i)) \o ")"

ParseFail(msg, i) == [ok |-> FALSE, next |-> i, val |-> msg]

Parsed(v, next) == [ok |-> TRUE, next |-> next, val |-> v]

Put(obj, k, v) == [x \in (DOMAIN obj) \cup {k} |-> IF x = k THEN v ELSE obj[x]]

RECURSIVE ParseValue(_, _)
RECURSIVE ParseMembers(_, _, _)
RECURSIVE ParseItems(_, _, _)

\* scan_once at lexeme i: [ok, val, next lexeme], or the failure's message
\* and the lexeme it is at.
ParseValue(toks, i) ==
    IF i > Len(toks) THEN ParseFail("Expecting value", i)
    ELSE IF toks[i].t = "string" THEN Parsed(JString(toks[i].v), i + 1)
    ELSE IF toks[i].t = "number" THEN Parsed(JNumber(toks[i].v), i + 1)
    ELSE IF toks[i].t = "literal" THEN Parsed(JLiteral(toks[i].v), i + 1)
    ELSE IF IsPunct(toks[i], "{") THEN
        IF i + 1 <= Len(toks) /\ IsPunct(toks[i + 1], "}")
        THEN Parsed(JObject(<<>>), i + 2)
        ELSE IF i + 1 > Len(toks) \/ toks[i + 1].t # "string"
        THEN ParseFail("Expecting property name enclosed in double quotes", i + 1)
        ELSE ParseMembers(toks, i + 1, <<>>)
    ELSE IF IsPunct(toks[i], "[") THEN
        IF i + 1 <= Len(toks) /\ IsPunct(toks[i + 1], "]")
        THEN Parsed(JArray(<<>>), i + 2)
        ELSE ParseItems(toks, i + 1, <<>>)
    ELSE ParseFail("Expecting value", i)

\* JSONObject's loop, at the key at lexeme i; obj holds the pairs read so
\* far (a repeated key keeps its last value).
ParseMembers(toks, i, obj) ==
    IF i + 1 > Len(toks) \/ ~IsPunct(toks[i + 1], ":")
    THEN ParseFail("Expecting ':' delimiter", i + 1)
    ELSE LET v == ParseValue(toks, i + 2) IN
        IF ~v.ok THEN v
        ELSE IF v.next <= Len(toks) /\ IsPunct(toks[v.next], "}")
             THEN Parsed(JObject(Put(obj, toks[i].v, v.val)), v.next + 1)
        ELSE IF v.next > Len(toks) \/ ~IsPunct(toks[v.next], ",")
             THEN ParseFail("Expecting ',' delimiter", v.next)
        ELSE IF v.next + 1 > Len(toks) \/ toks[v.next + 1].t # "string"
             THEN ParseFail("Expecting property name enclosed in double quotes", v.next + 1)
        ELSE ParseMembers(toks, v.next + 1, Put(obj, toks[i].v, v.val))

\* JSONArray's loop, at the item at lexeme i.
ParseItems(toks, i, items) ==
    LET v == ParseValue(toks, i) IN
    IF ~v.ok THEN v
    ELSE IF v.next <= Len(toks) /\ IsPunct(toks[v.next], "]")
         THEN Parsed(JArray(Append(items, v.val)), v.next + 1)
    ELSE IF v.next > Len(toks) \/ ~IsPunct(toks[v.next], ",")
         THEN ParseFail("Expecting ',' delimiter", v.next)
    ELSE ParseItems(toks, v.next + 1, Append(items, v.val))

decode(toks) ==
    LET p == ParseValue(toks, 1) IN
    IF ~p.ok THEN Raise(JSONDecodeError(p.val, toks, p.next))
    ELSE IF p.next # Len(toks) + 1 THEN Raise(JSONDecodeError("Extra data", toks, p.next))
    ELSE Return(p.val)

(***************************************************************************)
(* What the completion call may give back to text_to_json: an error, or    *)
(* content.  The content follows no schema the code enforces, so it ranges *)
(* over the object asked for under either key name, partial objects, and   *)
(* text that is no JSON.  Identifiers are opaque to this class: a new      *)
(* entity takes the next unused name, and any listed name may come again.  *)
(***************************************************************************)
\* The keys of the "Required JSON format" block of the extraction prompt.
PromptKeys == {<<"column">>, <<"name">>, <<"properties">>, <<"relationships">>}

SP(pieces) == [t |-> "string", v |-> pieces]

Body(n) ==
    <<S("name"), P(":"), SP(n), P(","),
      S("properties"), P(":"),
          P("{"), S("creator"), P(":"), S("Guido"), P(","), S("year"), P(":"), N(1991), P("}"),
      P(","),
      S("relationships"), P(":"),
          P("{"), S("related_to"), P(":"), P("["), S("Guido"), P("]"), P("}"),
      P("}")>>

FullObject(n) == <<P("{"), S("category"), P(":"), S("Semantic"), P(",")>> \o Body(n)

AsPrompted(n) == <<P("{"), S("column"), P(":"), S("Semantic"), P(",")>> \o Body(n)

NameOnly(n) == <<P("{"), S("name"), P(":"), SP(n), P("}")>>

Truncated(n) == SubSeq(FullObject(n), 1, Len(FullObject(n)) - 1)

NotJson ==
    {<<>>,
     <<W("Sure,"), W("here"), W("is"), W("the"), W("JSON")>>,
     <<P("{"), P("}"), P("}")>>}

AllContents ==
    UNION {{FullObject(n), AsPrompted(n), NameOnly(n), Truncated(n)} :
               n \in {EntityName(i) : i \in 1..(MaxWrites + 1)}}
    \cup {<<P("{"), P("}")>>}
    \cup NotJson

(***************************************************************************)
(* json.loads.  The decoder is a function of the text alone, so its result *)
(* on each content the completion can return is computed once and looked   *)
(* up; any other text is decoded on the spot.                              *)
(***************************************************************************)
Decoded == [toks \in AllContents |-> decode(toks)]

json_loads(toks) == IF toks \in AllContents THEN Decoded[toks] ELSE decode(toks)

(***************************************************************************)
(* json.dumps(frames, indent=2) on a list of strings, and ' '.join.        *)
(***************************************************************************)
RECURSIVE DumpItems(_, _)
DumpItems(xs, i) ==
    IF i > Len(xs) THEN ""
    ELSE "\n  " \o Quote(xs[i]) \o (IF i < Len(xs) THEN "," ELSE "") \o DumpItems(xs, i + 1)

json_dumps(xs) == IF xs = <<>> THEN "[]" ELSE "[" \o DumpItems(xs, 1) \o "\n]"

RECURSIVE JoinFrom(_, _, _)
JoinFrom(sep, parts, i) ==
    IF i > Len(parts) THEN ""
    ELSE parts[i] \o (IF i < Len(parts) THEN sep ELSE "") \o JoinFrom(sep, parts, i + 1)

join(sep, parts) == JoinFrom(sep, parts, 1)

(***************************************************************************)
(* The HawkinsDB store, as far as this class sees it: add_entity,          *)
(* list_entities and query_frames.  A store is a listing (the identifiers, *)
(* in the store's order) and the frames kept under each identifier.  Any   *)
(* call may raise; fault says which call of the current operation does.    *)
(***************************************************************************)
NoFault == [op |-> "none", name |-> <<>>]

Faults ==
    {NoFault}
    \cup {[op |-> o, name |-> <<>>] : o \in {"add_entity", "list_entities"}}
    \cup {[op |-> "query_frames", name |-> n] : n \in Names \cup {AbsentName}}

StoreError == "database is locked"

EmptyStore == [entities |-> <<>>, frames |-> <<>>]

InListing(store, name) == \E i \in 1..Len(store.entities) : store.entities[i] = name

StoreListEntities(store, fault) ==
    IF fault.op = "list_entities" THEN Raise(StoreError) ELSE Return(store.entities)

StoreQueryFrames(store, name, fault) ==
    IF fault.op = "query_frames" /\ fault.name = name THEN Raise(StoreError)
    ELSE IF name \in DOMAIN store.frames THEN Return(store.frames[name])
    ELSE Return(<<>>)

\* The store refuses a record it cannot name: one that is no dict, or has
\* no "name", or whose "name" is no string.
StoreAddEntity(record, fault) ==
    IF fault.op = "add_entity" THEN Raise(StoreError)
    ELSE IF record.type # "object" THEN Raise("Entity name is required")
    ELSE IF <<"name">> \notin DOMAIN record.val THEN Raise("Entity name is required")
    ELSE IF record.val[<<"name">>].type # "string" THEN Raise("Entity name is required")
    ELSE Return([success |-> TRUE, entity_name |-> record.val[<<"name">>].val])

\* The store after one call in a trace: only an add_entity that returned
\* changes it.  The identifier joins the listing (once); whether a frame is
\* kept under it is the store's own policy (keep).
StoreAfterCall(store, call, keep) ==
    IF call.fn # "add_entity" \/ call.raised THEN store
    ELSE LET name == call.ret.entity_name IN
        [entities |-> IF InListing(store, name) THEN store.entities
                      ELSE Append(store.entities, name),
         frames |-> IF keep THEN Put(store.frames, name, <<name>>)
                    ELSE IF name \in DOMAIN store.frames THEN store.frames
                    ELSE Put(store.frames, name, <<>>)]

RECURSIVE StoreAfter(_, _, _, _)
StoreAfter(store, calls, i, keep) ==
    IF i > Len(calls) THEN store
    ELSE StoreAfter(StoreAfterCall(store, calls[i], keep), calls, i + 1, keep)

(***************************************************************************)
(* The completion capability: client.chat.completions.create.  comp is how *)
(* the call ends: Raise(error) or Return(content).                         *)
(***************************************************************************)
Completion(model, system, user, comp) ==
    Call("completion", [model |-> model, system |-> system, user |-> user], comp)

ExtractionPrompt ==
    "Convert the following text into a structured JSON format suitable for a memory database. \n"
    \o "        \n"
    \o "        Rules:\n"
    \o "        1. Extract key entity details, properties, and relationships\n"
    \o "        2. Use underscores for entity names (e.g., Python_Language)\n"
    \o "        3. Categorize memory as one of: Semantic, Episodic, or Procedural\n"
    \o "        4. Include relevant properties and relationships\n"
    \o "        \n"
    \o "        Required JSON format:\n"
    \o "        {\n"
    \o "            \"column\": \"memory_type\",\n"
    \o "            \"name\": \"entity_name\",\n"
    \o "            \"properties\": {\n"
    \o "                \"key1\": \"value1\",\n"
    \o "                \"key2\": [\"value2a\", \"value2b\"]\n"
    \o "            },\n"
    \o "            \"relationships\": {\n"
    \o "                \"related_to\": [\"entity1\", \"entity2\"],\n"
    \o "                \"part_of\": [\"parent_entity\"]\n"
    \o "            }\n"
    \o "        }\n"
    \o "\n"
    \o "        Text to convert:\n"
    \o "        "

\* The f-string of query_by_text, context and question in their places.
QueryPrompt(context, query_text) ==
    "You are a helpful assistant with access to a knowledge base.\n"
    \o "            Answer the following question based on this context:\n"
    \o "\n"
    \o "            Context:\n"
    \o "            " \o context \o "\n"
    \o "\n"
    \o "            Question: " \o query_text \o "\n"
    \o "\n"
    \o "            Rules:\n"
    \o "            1. Only use information from the provided context\n"
    \o "            2. If information is not in the context, say so\n"
    \o "            3. Be specific and include details when available\n"
    \o "            4. Format numbers and dates clearly\n"
    \o "            "

(***************************************************************************)
(* The methods.  Each yields [escaped, error, envelope, calls]: escaped    *)
(* says an exception left the method (error is its text), otherwise        *)
(* envelope is the dict it returned; calls are the external calls made.    *)
(***************************************************************************)
Returned(envelope, calls) ==
    [escaped |-> FALSE, error |-> "", envelope |-> envelope, calls |-> calls]

Escaped(error, calls) ==
    [escaped |-> TRUE, error |-> error, envelope |-> None, calls |-> calls]

\* __init__: the key is the argument or, failing that, the environment's;
\* without one the constructor raises and no object exists.
TextToHawkinsDB(api_key) ==
    LET key == IF api_key # "" THEN api_key ELSE EnvApiKey IN
    IF key = "" THEN Escaped("OpenAI API key is required", <<>>)
    ELSE Returned([api_key |-> key], <<>>)

\* A variant of text_to_json that tries the completion call a second time
\* when the first attempt raised or its content did not parse.
text_to_json_retry(text, comp) ==
    LET attempt == Completion("gpt-3.5-turbo", ExtractionPrompt, text, comp) IN
    IF comp.raised THEN Escaped(comp.error, <<attempt, attempt>>)
    ELSE LET parsed == json_loads(comp.value) IN
        IF parsed.raised THEN Escaped(parsed.error, <<attempt, attempt>>)
        ELSE Returned(parsed.value, <<attempt>>)

\* text_to_json: one completion call, json.loads on its content; the except
\* clause logs and re-raises.
text_to_json(text, comp) ==
    LET calls == <<Completion("gpt-3.5-turbo", ExtractionPrompt, text, comp)>> IN
    IF comp.raised THEN Escaped(comp.error, calls)
    ELSE LET parsed == json_loads(comp.value) IN
        IF parsed.raised THEN Escaped(parsed.error, calls)
        ELSE Returned(parsed.value, calls)

\* Variants of add_to_db, each with one slip: uncaught lets the exception
\* out, echo returns the extracted record beside a failed write, dedup skips
\* a text it has just added, anyway calls add_entity after a failed
\* extraction.
AddToDbWith(text, comp, fault, uncaught, echo, dedup, anyway) ==
    LET conv == text_to_json(text, comp) IN
    IF dedup /\ last.op = "add_to_db" /\ last.arg = text /\ last.envelope.success
    THEN Returned(last.envelope, <<>>)
    ELSE IF conv.escaped THEN
        IF uncaught THEN conv
        ELSE LET failed == [success |-> FALSE, message |-> conv.error,
                            entity_data |-> None, db_result |-> None]
             IN IF anyway
                THEN Returned(failed, Append(conv.calls,
                                  Call("add_entity", JObject(<<>>),
                                       StoreAddEntity(JObject(<<>>), fault))))
                ELSE Returned(failed, conv.calls)
    ELSE LET json_data == conv.envelope
             result == StoreAddEntity(json_data, fault)
             calls == Append(conv.calls, Call("add_entity", json_data, result))
         IN IF result.raised THEN
                IF uncaught THEN Escaped(result.error, calls)
                ELSE Returned([success |-> FALSE, message |-> result.error,
                               entity_data |-> IF echo THEN Some(json_data) ELSE None,
                               db_result |-> None], calls)
            ELSE
                Returned([success |-> TRUE, message |-> "Successfully added to database",
                          entity_data |-> Some(json_data),
                          db_result |-> Some(result.value)], calls)

add_to_db_uncaught(text, comp, fault) ==
    AddToDbWith(text, comp, fault, TRUE, FALSE, FALSE, FALSE)

add_to_db_echo(text, comp, fault) ==
    AddToDbWith(text, comp, fault, FALSE, TRUE, FALSE, FALSE)

add_to_db_dedup(text, comp, fault) ==
    AddToDbWith(text, comp, fault, FALSE, FALSE, TRUE, FALSE)

add_to_db_anyway(text, comp, fault) ==
    AddToDbWith(text, comp, fault, FALSE, FALSE, FALSE, TRUE)

\* add_to_db: the whole body is one try; the handler returns the failure
\* envelope.  (The json.dumps of the logging line is applied to what
\* json.loads returned, which it always serializes.)
add_to_db(text, comp, fault) ==
    LET conv == text_to_json(text, comp) IN
    IF conv.escaped THEN
        Returned([success |-> FALSE, message |-> conv.error,
                  entity_data |-> None, db_result |-> None], conv.calls)
    ELSE LET json_data == conv.envelope
             result == StoreAddEntity(json_data, fault)
             calls == Append(conv.calls, Call("add_entity", json_data, result))
         IN IF result.raised THEN
                Returned([success |-> FALSE, message |-> result.error,
                          entity_data |-> None, db_result |-> None], calls)
            ELSE
                Returned([success |-> TRUE, message |-> "Successfully added to database",
                          entity_data |-> Some(json_data),
                          db_result |-> Some(result.value)], calls)

\* A variant of query_entity that reports an entity without frames as found.
query_entity_empty_success(entity_name, store, fault) ==
    LET frames == StoreQueryFrames(store, entity_name, fault)
        calls == <<Call("query_frames", entity_name, frames)>>
    IN IF frames.raised THEN
           Returned([success |-> FALSE, message |-> frames.error, data |-> None], calls)
       ELSE
           Returned([success |-> TRUE, message |-> "Entity found",
                     data |-> Some(frames.value)], calls)

query_entity(entity_name, store, fault) ==
    LET frames == StoreQueryFrames(store, entity_name, fault)
        calls == <<Call("query_frames", entity_name, frames)>>
    IN IF frames.raised THEN
           Returned([success |-> FALSE, message |-> frames.error, data |-> None], calls)
       ELSE IF frames.value = <<>> THEN
           Returned([success |-> FALSE,
                     message |-> "No entity found with name: " \o Text(entity_name),
                     data |-> None], calls)
       ELSE
           Returned([success |-> TRUE, message |-> "Entity found",
                     data |-> Some(frames.value)], calls)

\* The loop over entities[:5], from position i on: context holds the blocks
\* appended so far.  A query_frames that raises ends the loop.
RECURSIVE BuildContext(_, _, _, _, _, _)
BuildContext(prefix, i, store, fault, context, calls) ==
    IF i > Len(prefix) THEN [raised |-> FALSE, error |-> "", context |-> context, calls |-> calls]
    ELSE LET frames == StoreQueryFrames(store, prefix[i], fault)
             called == Append(calls, Call("query_frames", prefix[i], frames))
         IN IF frames.raised
            THEN [raised |-> TRUE, error |-> frames.error, context |-> context, calls |-> called]
            ELSE BuildContext(prefix, i + 1, store, fault,
                              IF frames.value # <<>>
                              THEN Append(context, json_dumps(frames.value))
                              ELSE context,
                              called)

\* A loop that goes on through the listing until it has five blocks: the
\* cutoff applied to the entities that have frames.
RECURSIVE BuildContextFiltered(_, _, _, _, _, _)
BuildContextFiltered(listing, i, store, fault, context, calls) ==
    IF i > Len(listing) \/ Len(context) = CutOff
    THEN [raised |-> FALSE, error |-> "", context |-> context, calls |-> calls]
    ELSE LET frames == StoreQueryFrames(store, listing[i], fault)
             called == Append(calls, Call("query_frames", listing[i], frames))
         IN IF frames.raised
            THEN [raised |-> TRUE, error |-> frames.error, context |-> context, calls |-> called]
            ELSE BuildContextFiltered(listing, i + 1, store, fault,
                                      IF frames.value # <<>>
                                      THEN Append(context, json_dumps(frames.value))
                                      ELSE context,
                                      called)

\* Variants of query_by_text, each with one slip: asks goes on to the
\* completion call on an empty listing, filtered applies the cutoff after
\* the skip, needs gives the fixed response when the context is empty.
QueryByTextWith(query_text, store, fault, comp, asks, filtered, needs) ==
    LET entities == StoreListEntities(store, fault)
        listed == <<Call("list_entities", "", entities)>>
        fixed == Returned([success |-> TRUE, message |-> "Database is empty",
                           response |-> Some("No information available in the database.")],
                          listed)
    IN IF entities.raised THEN
           Returned([success |-> FALSE, message |-> entities.error, response |-> None], listed)
       ELSE IF entities.value = <<>> /\ ~asks THEN fixed
       ELSE LET prefix == SubSeq(entities.value, 1, Min(CutOff, Len(entities.value)))
                built == IF filtered
                         THEN BuildContextFiltered(entities.value, 1, store, fault, <<>>, listed)
                         ELSE BuildContext(prefix, 1, store, fault, <<>>, listed)
            IN IF built.raised THEN
                   Returned([success |-> FALSE, message |-> built.error, response |-> None],
                            built.calls)
               ELSE IF needs /\ built.context = <<>> THEN
                   Returned(fixed.envelope, built.calls)
               ELSE LET prompt == QueryPrompt(join(" ", built.context), query_text)
                        calls == Append(built.calls, Completion("gpt4o", prompt, "", comp))
                    IN IF comp.raised THEN
                           Returned([success |-> FALSE, message |-> comp.error,
                                     response |-> None], calls)
                       ELSE
                           Returned([success |-> TRUE,
                                     message |-> "Query processed successfully",
                                     response |-> Some(comp.value)], calls)

query_by_text_asks(query_text, store, fault, comp) ==
    QueryByTextWith(query_text, store, fault, comp, TRUE, FALSE, FALSE)

query_by_text_filtered(query_text, store, fault, comp) ==
    QueryByTextWith(query_text, store, fault, comp, FALSE, TRUE, FALSE)

query_by_text_needs(query_text, store, fault, comp) ==
    QueryByTextWith(query_text, store, fault, comp, FALSE, FALSE, TRUE)

query_by_text(query_text, store, fault, comp) ==
    LET entities == StoreListEntities(store, fault)
        listed == <<Call("list_entities", "", entities)>>
    IN IF entities.raised THEN
           Returned([success |-> FALSE, message |-> entities.error, response |-> None], listed)
       ELSE IF entities.value = <<>> THEN
           Returned([success |-> TRUE, message |-> "Database is empty",
                     response |-> Some("No information available in the database.")], listed)
       ELSE LET prefix == SubSeq(entities.value, 1, Min(CutOff, Len(entities.value)))
                built == BuildContext(prefix, 1, store, fault, <<>>, listed)
            IN IF built.raised THEN
                   Returned([success |-> FALSE, message |-> built.error, response |-> None],
                            built.calls)
               ELSE LET prompt == QueryPrompt(join(" ", built.context), query_text)
                        calls == Append(built.calls, Completion("gpt4o", prompt, "", comp))
                    IN IF comp.raised THEN
                           Returned([success |-> FALSE, message |-> comp.error,
                                     response |-> None], calls)
                       ELSE
                           Returned([success |-> TRUE,
                                     message |-> "Query processed successfully",
                                     response |-> Some(comp.value)], calls)

list_all_entities(store, fault) ==
    LET entities == StoreListEntities(store, fault)
        calls == <<Call("list_entities", "", entities)>>
    IN IF entities.raised THEN
           Returned([success |-> FALSE, message |-> entities.error, entities |-> None], calls)
       ELSE
           Returned([success |-> TRUE, message |-> "Entities retrieved successfully",
                     entities |-> Some(entities.value)], calls)

(***************************************************************************)
(* The outcomes of the completion call in a given state of the store.      *)
(***************************************************************************)
NextNames(store) ==
    {store.entities[i] : i \in 1..Len(store.entities)}
    \cup {EntityName(Len(store.entities) + 1)}

Fresh(store) == EntityName(Len(store.entities) + 1)

Contents(store) ==
    {FullObject(n) : n \in NextNames(store)}
    \cup {AsPrompted(Fresh(store)), NameOnly(Fresh(store)), Truncated(Fresh(store))}
    \cup {<<P("{"), P("}")>>}
    \cup NotJson

ExtractionOutcomes(store) ==
    {Raise(e) : e \in CompletionErrors} \cup {Return(c) : c \in Contents(store)}

AnswerOutcomes ==
    {Raise(e) : e \in CompletionErrors} \cup {Return(a) : a \in Answers}

(***************************************************************************)
(* The state: the store behind self.db, the last operation with what it    *)
(* gave its caller and the calls it made (repeat: an add_to_db right after  *)
(* an add_to_db of the same text), and two history counters: the           *)
(* add_to_db calls whose extraction returned a record, and the add_entity  *)
(* calls issued.                                                           *)
(***************************************************************************)
RECURSIVE CountCalls(_, _, _)
CountCalls(calls, fn, i) ==
    IF i > Len(calls) THEN 0
    ELSE (IF calls[i].fn = fn THEN 1 ELSE 0) + CountCalls(calls, fn, i + 1)

\* Construction: with a key the object exists over a store (the listing
\* of a fresh one is empty); without, the constructor raised and nothing
\* can be called.
Init ==
    \E api_key \in ApiKeys :
        LET r == TextToHawkinsDB(api_key) IN
        /\ constructed = ~r.escaped
        /\ db = EmptyStore
        /\ last = [op |-> "init", arg |-> api_key, repeat |-> FALSE,
                   escaped |-> r.escaped, error |-> r.error,
                   envelope |-> r.envelope, calls |-> r.calls]
        /\ nExtracted = 0
        /\ nWrites = 0

\* One operation: r is what the method yielded, keep the store's policy.
Step(op, arg, r, keep, extracted) ==
    /\ constructed
    /\ constructed' = constructed
    /\ nWrites + CountCalls(r.calls, "add_entity", 1) <= MaxWrites
    /\ last' = [op |-> op, arg |-> arg, repeat |-> (op = "add_to_db" /\ last.op = op /\ last.arg = arg),
                escaped |-> r.escaped, error |-> r.error,
                envelope |-> r.envelope, calls |-> r.calls]
    /\ db' = StoreAfter(db, r.calls, 1, keep)
    /\ nWrites' = nWrites + CountCalls(r.calls, "add_entity", 1)
    /\ nExtracted' = nExtracted + extracted

\* The store's part (whether add_entity raises, whether a frame is kept)
\* is drawn only when the extraction returned a record to hand over.
AddToDb ==
    \E text \in Texts, comp \in ExtractionOutcomes(db) :
        LET extracted == ~text_to_json(text, comp).escaped IN
        \E fault \in {NoFault, [op |-> "add_entity", name |-> <<>>]}, keep \in BOOLEAN :
            /\ ~extracted => (fault = NoFault /\ ~keep)
            /\ fault # NoFault => ~keep
            /\ Step("add_to_db", text, add_to_db(text, comp, fault), keep,
                    IF extracted THEN 1 ELSE 0)

QueryEntity ==
    \E entity_name \in Names \cup {AbsentName} :
        \E fault \in {NoFault, [op |-> "query_frames", name |-> entity_name]} :
            Step("query_entity", entity_name, query_entity(entity_name, db, fault), FALSE, 0)

\* A query_frames fault is drawn among the first identifiers of the
\* listing, the one past the cutoff included.
QueryByText ==
    \E query_text \in Questions, comp \in AnswerOutcomes,
       fault \in {f \in Faults :
                    \/ f.op \in {"none", "list_entities"}
                    \/ /\ f.op = "query_frames"
                       /\ \E i \in 1..Min(CutOff + 1, Len(db.entities)) :
                              db.entities[i] = f.name} :
        Step("query_by_text", query_text, query_by_text(query_text, db, fault, comp), FALSE, 0)

ListAllEntities ==
    \E fault \in {NoFault, [op |-> "list_entities", name |-> <<>>]} :
        Step("list_all_entities", "", list_all_entities(db, fault), FALSE, 0)

Next ==
    \/ AddToDb
    \/ QueryEntity
    \/ QueryByText
    \/ ListAllEntities

Spec == Init /\ [][Next]_vars

(***************************************************************************)
(* Reading the last operation.                                             *)
(***************************************************************************)
PublicOps == {"add_to_db", "query_entity", "query_by_text", "list_all_entities"}

NCalls(fn) == CountCalls(last.calls, fn, 1)

\* Some external call of the last operation raised.
SomeCallRaised == \E i \in 1..Len(last.calls) : last.calls[i].raised

\* A store call of the last operation raised.
StoreCallRaised ==
    \E i \in 1..Len(last.calls) : last.calls[i].fn # "completion" /\ last.calls[i].raised

\* The extraction's completion call returned content.
ContentReturned(l) ==
    /\ l.op = "add_to_db"
    /\ Len(l.calls) >= 1
    /\ l.calls[1].fn = "completion"
    /\ ~l.calls[1].raised

\* ... and json.loads rejected it / accepted it.
ParseFailed(l) == ContentReturned(l) /\ json_loads(l.calls[1].ret).raised

ExtractionReturned(l) == ContentReturned(l) /\ ~json_loads(l.calls[1].ret).raised

\* The completion call of the last operation, when it made exactly one.
TheCompletion == last.calls[CHOOSE i \in 1..Len(last.calls) : last.calls[i].fn = "completion"]

\* The identifiers query_frames was called with, in call order.
IsQueryFrames(c) == c.fn = "query_frames"

QueriedNames ==
    LET qs == SelectSeq(last.calls, IsQueryFrames) IN [i \in 1..Len(qs) |-> qs[i].arg]

\* The first five identifiers of the store's listing.
FirstFive == SubSeq(db.entities, 1, Min(CutOff, Len(db.entities)))

HasFrames(n) == db.frames[n] # <<>>

\* The context the claims describe: the serialized frames of those of the
\* first five identifiers that have frames, in listing order, one space
\* between neighbours.
RECURSIVE SpaceJoined(_)
SpaceJoined(blocks) ==
    IF Len(blocks) = 0 THEN ""
    ELSE IF Len(blocks) = 1 THEN blocks[1]
    ELSE SpaceJoined(SubSeq(blocks, 1, Len(blocks) - 1)) \o " " \o blocks[Len(blocks)]

ExpectedContext ==
    LET kept == SelectSeq(FirstFive, HasFrames)
    IN SpaceJoined([i \in 1..Len(kept) |-> json_dumps(db.frames[kept[i]])])

NoInformation == "No information available in the database."

(***************************************************************************)
(* C1.  Whatever fails inside a public operation (the completion call,     *)
(* the JSON parse, a store call), the operation returns an envelope with   *)
(* success = false; no exception leaves it.                                *)
(***************************************************************************)
C1_FailuresBecomeEnvelopes ==
    last.op \in PublicOps =>
        /\ ~last.escaped
        /\ (SomeCallRaised \/ ParseFailed(last)) => last.envelope.success = FALSE

\* add_to_db after a record was extracted and add_entity raised.
C1_Witness ==
    /\ last.op = "add_to_db"
    /\ ExtractionReturned(last)
    /\ Len(last.calls) = 2 /\ last.calls[2].fn = "add_entity" /\ last.calls[2].raised
    /\ ~last.escaped
    /\ last.envelope.success = FALSE

(***************************************************************************)
(* C2.  A failure envelope carries no payload: with success = false every  *)
(* payload field is None and message is the cause (the text of the         *)
(* exception, or the not-found message of query_entity).                   *)
(***************************************************************************)
PayloadIsNone ==
    CASE last.op = "add_to_db" ->
            last.envelope.entity_data.isNone /\ last.envelope.db_result.isNone
      [] last.op = "query_entity" -> last.envelope.data.isNone
      [] last.op = "query_by_text" -> last.envelope.response.isNone
      [] last.op = "list_all_entities" -> last.envelope.entities.isNone

FailureCause ==
    IF SomeCallRaised
    THEN last.calls[CHOOSE i \in 1..Len(last.calls) : last.calls[i].raised].ret
    ELSE IF ParseFailed(last) THEN json_loads(last.calls[1].ret).error
    ELSE IF last.op = "query_entity" THEN "No entity found with name: " \o Text(last.arg)
    ELSE ""

C2_FailureHasNoPayload ==
    (last.op \in PublicOps /\ ~last.escaped /\ last.envelope.success = FALSE) =>
        /\ PayloadIsNone
        /\ last.envelope.message = FailureCause

\* Extraction succeeded, the store write failed, and no record is echoed.
C2_Witness ==
    /\ last.op = "add_to_db"
    /\ ExtractionReturned(last)
    /\ StoreCallRaised
    /\ last.envelope.success = FALSE
    /\ last.envelope.entity_data.isNone
    /\ last.envelope.message = StoreError

\* The four keys the specification requires of a record.  The prompt asks
\* for PromptKeys, which has column where this set has category.
RequiredKeys == {<<"category">>, <<"name">>, <<"properties">>, <<"relationships">>}

(***************************************************************************)
(* C3.  The record add_to_db hands to add_entity always has the four keys  *)
(* category, name, properties and relationships.                           *)
(***************************************************************************)
C3_RecordHasRequiredKeys ==
    last.op = "add_to_db" =>
        \A i \in 1..Len(last.calls) :
            last.calls[i].fn = "add_entity" =>
                /\ last.calls[i].arg.type = "object"
                /\ RequiredKeys \subseteq DOMAIN last.calls[i].arg.val

(***************************************************************************)
(* C4.  query_by_text on a store whose listing is empty returns success    *)
(* with the fixed response, and calls neither the completion capability    *)
(* nor query_frames.                                                       *)
(***************************************************************************)
C4_EmptyListingShortCircuits ==
    (last.op = "query_by_text" /\ db.entities = <<>> /\ ~StoreCallRaised) =>
        /\ ~last.escaped
        /\ last.envelope.success = TRUE
        /\ ~last.envelope.response.isNone
        /\ last.envelope.response.value = NoInformation
        /\ NCalls("completion") = 0
        /\ NCalls("query_frames") = 0
        /\ NCalls("list_entities") = 1

C4_Witness ==
    /\ last.op = "query_by_text"
    /\ db.entities = <<>>
    /\ Len(last.calls) = 1 /\ ~last.calls[1].raised
    /\ last.envelope.success = TRUE
    /\ last.envelope.response.value = NoInformation

(***************************************************************************)
(* C5.  query_by_text on a non-empty listing queries exactly the first     *)
(* five listed identifiers, in order, and sends one prompt holding the     *)
(* space-joined serialized frames of those among them that have frames,    *)
(* and the question, both unchanged.  A sixth identifier is never queried. *)
(***************************************************************************)
C5_ContextIsFirstFive ==
    (last.op = "query_by_text" /\ db.entities # <<>> /\ ~StoreCallRaised) =>
        /\ QueriedNames = FirstFive
        /\ NCalls("completion") = 1
        /\ last.calls[Len(last.calls)].fn = "completion"
        /\ TheCompletion.arg.system = QueryPrompt(ExpectedContext, last.arg)

\* Six listed, one of the first five without frames, two of them and the
\* sixth with frames: the sixth was not queried to make up for the skip.
C5_Witness ==
    /\ last.op = "query_by_text"
    /\ ~SomeCallRaised
    /\ Len(db.entities) > CutOff
    /\ \E i \in 1..CutOff : ~HasFrames(db.entities[i])
    /\ \E i, j \in 1..CutOff : i # j /\ HasFrames(db.entities[i]) /\ HasFrames(db.entities[j])
    /\ HasFrames(db.entities[CutOff + 1])
    /\ Len(QueriedNames) = CutOff
    /\ last.envelope.success = TRUE

(***************************************************************************)
(* C6.  query_entity: when the store returns no frames for the name, the   *)
(* envelope is a failure whose message names the entity and whose data is  *)
(* None; when it returns frames, a success whose data is those frames.     *)
(***************************************************************************)
C6_NotFoundIsFailure ==
    (last.op = "query_entity" /\ ~StoreCallRaised) =>
        /\ ~last.escaped
        /\ Len(last.calls) = 1 /\ last.calls[1].fn = "query_frames"
        /\ last.calls[1].arg = last.arg
        /\ last.calls[1].ret = <<>> =>
              /\ last.envelope.success = FALSE
              /\ last.envelope.message = "No entity found with name: " \o Text(last.arg)
              /\ last.envelope.data.isNone
        /\ last.calls[1].ret # <<>> =>
              /\ last.envelope.success = TRUE
              /\ ~last.envelope.data.isNone
              /\ last.envelope.data.value = last.calls[1].ret

\* A name the store has never been given.
C6_Witness ==
    /\ last.op = "query_entity"
    /\ last.arg = AbsentName
    /\ db.entities # <<>>
    /\ ~SomeCallRaised
    /\ last.envelope.success = FALSE
    /\ last.envelope.data.isNone

(***************************************************************************)
(* C7.  add_to_db does not deduplicate: a call right after a call with the *)
(* same text issues its own extraction call with that text and, when the   *)
(* extraction returns a record, its own add_entity call with that record.  *)
(***************************************************************************)
C7_NoDeduplication ==
    [][(last'.op = "add_to_db" /\ last'.repeat) =>
          /\ ~last'.escaped
          /\ CountCalls(last'.calls, "completion", 1) = 1
          /\ last'.calls[1].fn = "completion"
          /\ last'.calls[1].arg.user = last'.arg
          /\ ExtractionReturned(last') =>
                /\ Len(last'.calls) = 2
                /\ last'.calls[2].fn = "add_entity"
                /\ last'.calls[2].arg = json_loads(last'.calls[1].ret).value
                /\ nWrites' = nWrites + 1
                /\ nExtracted' = nExtracted + 1]_vars

\* The same text twice, the same entity extracted twice, written twice.
C7_Witness ==
    /\ last.op = "add_to_db"
    /\ last.repeat
    /\ last.envelope.success = TRUE
    /\ Len(db.entities) = 1
    /\ nWrites = 2
    /\ nExtracted = 2

(***************************************************************************)
(* C8.  No retries: an operation makes at most one completion call         *)
(* (query_entity and list_all_entities none), and a call that fails, or a  *)
(* content that does not parse, is the last thing the operation does.      *)
(***************************************************************************)
C8_NoRetry ==
    last.op \in PublicOps =>
        /\ NCalls("completion") <= (IF last.op \in {"add_to_db", "query_by_text"} THEN 1 ELSE 0)
        /\ \A i \in 1..Len(last.calls) : last.calls[i].raised => i = Len(last.calls)
        /\ ParseFailed(last) => Len(last.calls) = 1
        /\ (SomeCallRaised \/ ParseFailed(last)) =>
              (~last.escaped /\ last.envelope.success = FALSE)

\* The completion call of a question failed after the store calls.
C8_Witness ==
    /\ last.op = "query_by_text"
    /\ NCalls("query_frames") >= 2
    /\ NCalls("completion") = 1
    /\ last.calls[Len(last.calls)].fn = "completion"
    /\ last.calls[Len(last.calls)].raised
    /\ last.envelope.success = FALSE

(***************************************************************************)
(* C9.  The store changes only in an add_to_db whose extraction returned a *)
(* record and which then called add_entity; a failed extraction makes no   *)
(* store call; the query operations never call add_entity; so add_entity   *)
(* calls never outnumber the add_to_db calls whose extraction succeeded.   *)
(***************************************************************************)
C9_WritesFollowExtraction ==
    /\ [](/\ nWrites <= nExtracted
          /\ last.op \in PublicOps \ {"add_to_db"} => NCalls("add_entity") = 0
          /\ (last.op = "add_to_db" /\ ~ExtractionReturned(last)) =>
                (NCalls("add_entity") = 0 /\ Len(last.calls) = 1)
          /\ NCalls("add_entity") <= 1)
    /\ [][db' # db =>
            /\ ExtractionReturned(last')
            /\ CountCalls(last'.calls, "add_entity", 1) = 1
            /\ nWrites' = nWrites + 1]_vars

\* An extraction that failed on a store that holds entities.
C9_Witness ==
    /\ last.op = "add_to_db"
    /\ ParseFailed(last)
    /\ NCalls("add_entity") = 0
    /\ Len(db.entities) >= 2
    /\ nWrites = nExtracted

(***************************************************************************)
(* C10.  The short-circuit looks at the listing, not at the context: with  *)
(* a non-empty listing whose first five identifiers all have no frames,    *)
(* query_by_text still makes its one completion call, with an empty        *)
(* context, and returns the model's answer as a success.                   *)
(***************************************************************************)
C10_EmptyContextStillAsks ==
    (/\ last.op = "query_by_text"
     /\ db.entities # <<>>
     /\ ~StoreCallRaised
     /\ \A i \in 1..Len(FirstFive) : ~HasFrames(FirstFive[i])) =>
        /\ NCalls("completion") = 1
        /\ TheCompletion.arg.system = QueryPrompt("", last.arg)
        /\ ~TheCompletion.raised =>
              /\ last.envelope.success = TRUE
              /\ ~last.envelope.response.isNone
              /\ last.envelope.response.value = TheCompletion.ret
              /\ last.envelope.response.value # NoInformation

C10_Witness ==
    /\ last.op = "query_by_text"
    /\ Len(db.entities) >= 2
    /\ \A i \in 1..Len(FirstFive) : ~HasFrames(FirstFive[i])
    /\ NCalls("completion") = 1
    /\ ~SomeCallRaised
    /\ last.envelope.success = TRUE
    /\ last.envelope.response.value \in Answers

====
